---- MODULE Spec2Model ----
(***************************************************************************)
(* Model of src-tauri/python_scripts/sanity_check/try_https.py: one        *)
(* urllib.request.urlopen call on a fixed URL, a test of the status code   *)
(* against 200, two print statements on the success path, one print and    *)
(* exit(1) on the other path.                                              *)
(*                                                                         *)
(* The script runs under CPython.  What the interpreter and urllib do for  *)
(* the script is part of the run and is modelled where the script calls    *)
(* it: urlopen follows redirects, raises HTTPError for a final status      *)
(* outside 200..299 and URLError when the transport fails; read() raises   *)
(* when the transport fails under it; an exception nobody catches prints   *)
(* a traceback on standard error and ends the process with exit code 1;    *)
(* falling off the end of the script ends it with exit code 0.             *)
(*                                                                         *)
(* Bytes and characters are their code points (integers), so that repr()   *)
(* and str() are modelled by what they produce.                            *)
(***************************************************************************)
EXTENDS Integers, Sequences, FiniteSets, TLC

\* ------------------------------------------------------------ bounds
\* Longest response body the endpoint sends.
MaxBodyLen == 2
\* Number of URLs, other than the fixed one, a redirect may name.
NumAltUrls == 1

\* ------------------------------------------------- the environment
\* Line 3: the fixed URL; URLs are numbered, the fixed one is 0.
url == 0
Urls == 0..NumAltUrls

\* Status codes the endpoint answers with: 200, other 2xx, redirects,
\* 304 (a 3xx that is no redirect), client and server errors.
Statuses == {200, 201, 204, 301, 302, 304, 404, 500}

\* Body bytes: NUL, newline, double quote, single quote, 'O'.
Bytes == {0, 10, 34, 39, 79}

RECURSIVE SeqsUpTo(_, _)
SeqsUpTo(S, n) ==
  IF n = 0 THEN {<<>>}
  ELSE LET shorter == SeqsUpTo(S, n - 1)
       IN  shorter \cup {Append(s, x) : s \in shorter, x \in S}

Bodies == SeqsUpTo(Bytes, MaxBodyLen)

\* --------------------------------------------------- urllib's rules
\* HTTPErrorProcessor.http_response: a status in 200..299 is returned to
\* the caller, any other goes to the error handlers.
IsReturned(code) == 200 <= code /\ code < 300

\* HTTPRedirectHandler: the statuses it follows for a GET, and its limits.
RedirectCodes == {301, 302, 303, 307}
max_repeats == 4
max_redirections == 10

\* ------------------------------------------------------ conversions
Range(s) == {s[i] : i \in 1..Len(s)}

\* str(int) for a status code: its decimal digits, as characters.
RECURSIVE Str(_)
Str(n) == IF n < 10 THEN <<48 + n>> ELSE Append(Str(n \div 10), 48 + (n % 10))

\* int(str): what a reader of the line gets back.
RECURSIVE IntOf(_)
IntOf(s) ==
  IF Len(s) = 0 THEN 0
  ELSE 10 * IntOf(SubSeq(s, 1, Len(s) - 1)) + (s[Len(s)] - 48)

HexDigit(d) == IF d < 10 THEN 48 + d ELSE 87 + d

\* bytes.__repr__: the quote is ' unless the bytes hold a ' and no ".
ReprQuote(b) == IF 39 \in Range(b) /\ 34 \notin Range(b) THEN 34 ELSE 39

\* bytes.__repr__, one byte: the quote in use and the backslash get a
\* backslash, tab, newline and carriage return their letter, a byte
\* outside 32..126 is \xhh, any other byte is itself.
ReprByte(c, quote) ==
  IF c = quote \/ c = 92 THEN <<92, c>>
  ELSE IF c = 9 THEN <<92, 116>>
  ELSE IF c = 10 THEN <<92, 110>>
  ELSE IF c = 13 THEN <<92, 114>>
  ELSE IF c < 32 \/ c >= 127 THEN <<92, 120, HexDigit(c \div 16), HexDigit(c % 16)>>
  ELSE <<c>>

RECURSIVE ReprBody(_, _)
ReprBody(b, quote) ==
  IF Len(b) = 0 THEN <<>>
  ELSE ReprByte(b[1], quote) \o ReprBody(SubSeq(b, 2, Len(b)), quote)

\* Fault variant of ReprBytes: the bytes between the quotes, unescaped.
ReprBytesRaw(b) == <<98, 39>> \o b \o <<39>>

\* str(bytes) = repr(bytes), which print() applies to response.read().
ReprBytes(b) ==
  LET quote == ReprQuote(b) IN <<98, quote>> \o ReprBody(b, quote) \o <<quote>>

\* The bytes literal read back (what a reader of the line recovers).
HexValue(h) == IF h >= 97 THEN h - 87 ELSE h - 48

RECURSIVE Unescape(_)
Unescape(s) ==
  IF Len(s) = 0 THEN <<>>
  ELSE IF s[1] # 92 \/ Len(s) = 1 THEN <<s[1]>> \o Unescape(SubSeq(s, 2, Len(s)))
  ELSE IF s[2] = 120 /\ Len(s) >= 4
       THEN <<16 * HexValue(s[3]) + HexValue(s[4])>> \o Unescape(SubSeq(s, 5, Len(s)))
  ELSE LET c == CASE s[2] = 116 -> 9
                  [] s[2] = 110 -> 10
                  [] s[2] = 114 -> 13
                  [] OTHER -> s[2]
       IN  <<c>> \o Unescape(SubSeq(s, 3, Len(s)))

\* Between the quotes of a literal: a backslash with the character it
\* escapes, or a printable character that is neither the quote nor a
\* backslash.
RECURSIVE WellEscaped(_, _)
WellEscaped(s, quote) ==
  IF Len(s) = 0 THEN TRUE
  ELSE IF s[1] = 92
       THEN Len(s) >= 2 /\ WellEscaped(SubSeq(s, IF s[2] = 120 THEN 5 ELSE 3, Len(s)), quote)
  ELSE s[1] >= 32 /\ s[1] < 127 /\ s[1] # quote /\ WellEscaped(SubSeq(s, 2, Len(s)), quote)

\* A well-formed literal is b, a quote, the escaped bytes, the same quote.
IsBytesLiteral(s) ==
  /\ Len(s) >= 3
  /\ s[1] = 98
  /\ s[2] \in {34, 39}
  /\ s[Len(s)] = s[2]
  /\ WellEscaped(SubSeq(s, 3, Len(s) - 1), s[2])

EvalBytes(s) == Unescape(SubSeq(s, 3, Len(s) - 1))

\* ------------------------------------------------- the lines printed
\* print() writes its arguments' str(), a line per call; a line is the
\* tuple of what was written for each argument.
SuccessLine == <<"Request successful!">>
ContentLine(b) == <<"Response content:", ReprBytes(b)>>
FailureLine(code) == <<"Request failed. Status code:", Str(code)>>

IsSuccessLine(l) == l[1] = "Request successful!"
IsContentLine(l) == l[1] = "Response content:"
IsFailureLine(l) == l[1] = "Request failed. Status code:"

\* ------------------------------------------------------------ state
VARIABLES
  pc,            \* where the script is
  urlopenCalls,  \* calls of urllib.request.urlopen made
  nRequests,     \* HTTP requests sent
  reqUrl,        \* the URL of the request last sent
  visited,       \* the redirect handler's redirect_dict: URL -> times followed
  status,        \* status code of the response last received, 0 before any
  compared,      \* the value getcode() gave to the test of line 6, 0 before
  payload,       \* what response.read() returned
  bodyRead,      \* response.read() has been called
  stdout,        \* the lines written to standard output
  stderr,        \* the uncaught exception whose traceback was written, or "none"
  exitCode       \* the exit status of the process, -1 while it runs

vars == <<pc, urlopenCalls, nRequests, reqUrl, visited, status, compared,
          payload, bodyRead, stdout, stderr, exitCode>>

Init ==
  /\ pc = "start"
  /\ urlopenCalls = 0
  /\ nRequests = 0
  /\ reqUrl = url
  /\ visited = [u \in Urls |-> 0]
  /\ status = 0
  /\ compared = 0
  /\ payload = <<>>
  /\ bodyRead = FALSE
  /\ stdout = <<>>
  /\ stderr = "none"
  /\ exitCode = -1

\* An exception nobody catches: traceback on standard error, exit code 1.
Uncaught(exc) ==
  /\ stderr' = exc
  /\ exitCode' = 1
  /\ pc' = "done"

\* Line 4: urlopen(url) is called and sends the GET to the fixed URL.
UrlOpen ==
  /\ pc = "start"
  /\ urlopenCalls' = urlopenCalls + 1
  /\ nRequests' = nRequests + 1
  /\ reqUrl' = url
  /\ pc' = "await"
  /\ UNCHANGED <<visited, status, compared, payload, bodyRead, stdout, stderr, exitCode>>

\* Fault variant of TransportFail: the request is sent again, once.
TransportRetry ==
  /\ pc = "await"
  /\ IF nRequests < 2
     THEN /\ nRequests' = nRequests + 1
          /\ UNCHANGED <<pc, stderr, exitCode>>
     ELSE /\ Uncaught("URLError")
          /\ UNCHANGED nRequests
  /\ UNCHANGED <<urlopenCalls, reqUrl, visited, status, compared, payload, bodyRead, stdout>>

\* Line 4: DNS, TLS, connection or timeout failure under urlopen: URLError.
TransportFail ==
  /\ pc = "await"
  /\ Uncaught("URLError")
  /\ UNCHANGED <<urlopenCalls, nRequests, reqUrl, visited, status, compared,
                 payload, bodyRead, stdout>>

\* Fault variant of ReturnResponse: the body is fetched with the headers.
ReturnResponseEager(s) ==
  /\ pc = "await"
  /\ IsReturned(s)
  /\ status' = s
  /\ bodyRead' = TRUE
  /\ pc' = "check"
  /\ UNCHANGED <<urlopenCalls, nRequests, reqUrl, visited, compared, payload,
                 stdout, stderr, exitCode>>

\* Line 4: a response with a status in 200..299 arrives; urlopen returns it.
ReturnResponse(s) ==
  /\ pc = "await"
  /\ IsReturned(s)
  /\ status' = s
  /\ pc' = "check"
  /\ UNCHANGED <<urlopenCalls, nRequests, reqUrl, visited, compared, payload,
                 bodyRead, stdout, stderr, exitCode>>

\* HTTPRedirectHandler.http_error_302: the loop detection, made from the
\* second redirect of a chain on.
LoopDetected(loc) ==
  /\ \E u \in Urls : visited[u] > 0
  /\ \/ visited[loc] >= max_repeats
     \/ Cardinality({u \in Urls : visited[u] > 0}) >= max_redirections

\* Line 4: a redirect with a Location arrives; urlopen follows it with a
\* new request.
FollowRedirect(s, loc) ==
  /\ pc = "await"
  /\ s \in RedirectCodes
  /\ ~LoopDetected(loc)
  /\ status' = s
  /\ visited' = [visited EXCEPT ![loc] = @ + 1]
  /\ nRequests' = nRequests + 1
  /\ reqUrl' = loc
  /\ UNCHANGED <<pc, urlopenCalls, compared, payload, bodyRead, stdout, stderr, exitCode>>

\* Line 4: a redirect the loop detection refuses: HTTPError.
RedirectLoop(s, loc) ==
  /\ pc = "await"
  /\ s \in RedirectCodes
  /\ LoopDetected(loc)
  /\ status' = s
  /\ Uncaught("HTTPError")
  /\ UNCHANGED <<urlopenCalls, nRequests, reqUrl, visited, compared, payload,
                 bodyRead, stdout>>

\* Line 4: a response with a status outside 200..299 that is no redirect
\* to follow (no redirect status, or no Location): HTTPError.
RaiseHTTPError(s) ==
  /\ pc = "await"
  /\ ~IsReturned(s)
  /\ status' = s
  /\ Uncaught("HTTPError")
  /\ UNCHANGED <<urlopenCalls, nRequests, reqUrl, visited, compared, payload,
                 bodyRead, stdout>>

\* Fault variant of IsSuccess: any 2xx counts.
IsSuccessRange(code) == 200 <= code /\ code < 300

\* Line 6: response.getcode() == 200.
IsSuccess(code) == code = 200

\* Line 6: the test.
CheckStatus ==
  /\ pc = "check"
  /\ compared' = status
  /\ pc' = IF IsSuccess(status) THEN "print_ok" ELSE "print_fail"
  /\ UNCHANGED <<urlopenCalls, nRequests, reqUrl, visited, status, payload,
                 bodyRead, stdout, stderr, exitCode>>

\* Line 7.
PrintSuccess ==
  /\ pc = "print_ok"
  /\ stdout' = Append(stdout, SuccessLine)
  /\ pc' = "read"
  /\ UNCHANGED <<urlopenCalls, nRequests, reqUrl, visited, status, compared,
                 payload, bodyRead, stderr, exitCode>>

\* Line 8, the argument: response.read() returns the body the endpoint sent.
ReadBody(b) ==
  /\ pc = "read"
  /\ payload' = b
  /\ bodyRead' = TRUE
  /\ pc' = "print_body"
  /\ UNCHANGED <<urlopenCalls, nRequests, reqUrl, visited, status, compared,
                 stdout, stderr, exitCode>>

\* Fault variant of ReadFail: the failure is swallowed and what arrived is kept.
ReadFailSwallowed ==
  /\ pc = "read"
  /\ bodyRead' = TRUE
  /\ stderr' = "IncompleteRead"
  /\ pc' = "print_body"
  /\ UNCHANGED <<urlopenCalls, nRequests, reqUrl, visited, status, compared,
                 payload, stdout, exitCode>>

\* Line 8, the argument: the transport fails under response.read().
ReadFail ==
  /\ pc = "read"
  /\ bodyRead' = TRUE
  /\ Uncaught("IncompleteRead")
  /\ UNCHANGED <<urlopenCalls, nRequests, reqUrl, visited, status, compared,
                 payload, stdout>>

\* Line 8, the print.
PrintContent ==
  /\ pc = "print_body"
  /\ stdout' = Append(stdout, ContentLine(payload))
  /\ pc' = "end"
  /\ UNCHANGED <<urlopenCalls, nRequests, reqUrl, visited, status, compared,
                 payload, bodyRead, stderr, exitCode>>

\* Fault variant of FallOffEnd: the success path ends with a failure status.
FallOffEndNonZero ==
  /\ pc = "end"
  /\ exitCode' = 1
  /\ pc' = "done"
  /\ UNCHANGED <<urlopenCalls, nRequests, reqUrl, visited, status, compared,
                 payload, bodyRead, stdout, stderr>>

\* After line 8: the script ends; the interpreter exits with code 0.
FallOffEnd ==
  /\ pc = "end"
  /\ exitCode' = 0
  /\ pc' = "done"
  /\ UNCHANGED <<urlopenCalls, nRequests, reqUrl, visited, status, compared,
                 payload, bodyRead, stdout, stderr>>

\* Line 10: the second getcode() gives the same response's status.
PrintFailure ==
  /\ pc = "print_fail"
  /\ stdout' = Append(stdout, FailureLine(status))
  /\ pc' = "exit"
  /\ UNCHANGED <<urlopenCalls, nRequests, reqUrl, visited, status, compared,
                 payload, bodyRead, stderr, exitCode>>

\* Fault variant of Exit1: the probe starts over instead of exiting.
ExitRetry ==
  /\ pc = "exit"
  /\ pc' = "start"
  /\ urlopenCalls' = 0
  /\ nRequests' = 0
  /\ reqUrl' = url
  /\ visited' = [u \in Urls |-> 0]
  /\ status' = 0
  /\ compared' = 0
  /\ stdout' = <<>>
  /\ UNCHANGED <<payload, bodyRead, stderr, exitCode>>

\* Fault variant of Exit1: exit(0).
ExitZero ==
  /\ pc = "exit"
  /\ exitCode' = 0
  /\ pc' = "done"
  /\ UNCHANGED <<urlopenCalls, nRequests, reqUrl, visited, status, compared,
                 payload, bodyRead, stdout, stderr>>

\* Line 11: exit(1).
Exit1 ==
  /\ pc = "exit"
  /\ exitCode' = 1
  /\ pc' = "done"
  /\ UNCHANGED <<urlopenCalls, nRequests, reqUrl, visited, status, compared,
                 payload, bodyRead, stdout, stderr>>

Next ==
  \/ UrlOpen
  \/ TransportFail
  \/ \E s \in Statuses : ReturnResponse(s)
  \/ \E s \in Statuses, loc \in Urls : FollowRedirect(s, loc)
  \/ \E s \in Statuses, loc \in Urls : RedirectLoop(s, loc)
  \/ \E s \in Statuses : RaiseHTTPError(s)
  \/ CheckStatus
  \/ PrintSuccess
  \/ \E b \in Bodies : ReadBody(b)
  \/ ReadFail
  \/ PrintContent
  \/ FallOffEnd
  \/ PrintFailure
  \/ Exit1

Spec == Init /\ [][Next]_vars

\* The script is one thread and each of its calls returns or raises, so a
\* step that can be taken is taken.
FairSpec == Spec /\ WF_vars(Next)

\* ------------------------------------------------------- properties
Terminated == pc = "done"

\* The transport failed under urlopen or under read().
TransportFailed == stderr \in {"URLError", "IncompleteRead"}

HasSuccessLine == \E i \in 1..Len(stdout) : IsSuccessLine(stdout[i])
HasContentLine == \E i \in 1..Len(stdout) : IsContentLine(stdout[i])
HasFailureLine == \E i \in 1..Len(stdout) : IsFailureLine(stdout[i])

RECURSIVE SumVisited(_)
SumVisited(U) ==
  IF U = {} THEN 0
  ELSE LET u == CHOOSE x \in U : TRUE IN visited[u] + SumVisited(U \ {u})

\* The run as the two-state machine of the design: Pending, then Success
\* (exit code 0) or Failure (any other exit code).
RunState ==
  IF ~Terminated THEN "Pending"
  ELSE IF exitCode = 0 THEN "Success" ELSE "Failure"

\* C1: a run that ended after a 200 response whose body arrived has
\* printed the success marker, then a response-content line whose bytes
\* literal reads back as that body (the empty body included), and has
\* exit code 0.
C1_Status200PrintsBody ==
  (Terminated /\ status = 200 /\ ~TransportFailed) =>
    /\ bodyRead
    /\ Len(stdout) = 2
    /\ stdout[1] = SuccessLine
    /\ IsContentLine(stdout[2])
    /\ IsBytesLiteral(stdout[2][2])
    /\ EvalBytes(stdout[2][2]) = payload
    /\ exitCode = 0

\* C1 witness: a 200 response with a body of a quote and a newline, printed.
C1_Witness ==
  /\ Terminated
  /\ status = 200
  /\ payload = <<39, 10>>
  /\ stdout = <<SuccessLine, <<"Response content:", <<98, 34, 39, 92, 110, 34>>>>>>
  /\ exitCode = 0

\* C2 (as claimed): a run that ended after an HTTP error status has the
\* failure marker with that status on standard output, and exit code 1.
C2_ErrorStatusPrintsFailure ==
  (Terminated /\ status >= 400) =>
    /\ stdout = <<FailureLine(status)>>
    /\ IntOf(stdout[1][2]) = status
    /\ compared = status
    /\ exitCode = 1

\* C3: the success marker is printed only after the status compared equal
\* to 200; a run that ended after any other 2xx status printed the failure
\* marker with that status and nothing else, and has exit code 1.
C3_ExactEquality ==
  /\ HasSuccessLine => compared = 200
  /\ (Terminated /\ status # 200 /\ status >= 200 /\ status < 300) =>
       /\ compared = status
       /\ stdout = <<FailureLine(status)>>
       /\ IntOf(stdout[1][2]) = status
       /\ ~HasSuccessLine
       /\ exitCode = 1

\* C3 witness: a run that ended after a 201.
C3_Witness ==
  /\ Terminated
  /\ status = 201
  /\ stdout = <<<<"Request failed. Status code:", <<50, 48, 49>>>>>>
  /\ exitCode = 1

\* C4: a run that ended has exit code 0 or 1: 0 after a 200 response that
\* arrived, 1 after any other status; exit code 0 only after the status
\* 200 was observed and compared.
C4_ExitCodeContract ==
  Terminated =>
    /\ exitCode \in {0, 1}
    /\ (status = 200 /\ ~TransportFailed) => exitCode = 0
    /\ (status # 0 /\ status # 200) => exitCode = 1
    /\ exitCode = 0 => (status = 200 /\ compared = 200)

\* C4 witness: a run that ended with exit code 1 after a 204.
C4_Witness == Terminated /\ status = 204 /\ compared = 204 /\ exitCode = 1

\* C5: once the transport has failed, under urlopen or under read(), the
\* process does not have, and ends without, exit code 0.
C5_TransportFailureNonZero ==
  TransportFailed => (Terminated /\ exitCode # 0)

\* C5 witness: the transport failed while the body was read, after the
\* success marker.
C5_Witness ==
  /\ Terminated
  /\ stderr = "IncompleteRead"
  /\ stdout = <<SuccessLine>>
  /\ exitCode = 1

\* C6: every run leaves Pending for Success or Failure, and from there no
\* step is taken: the run state and everything else stay as they are.
C6_TwoStateMachine ==
  /\ <>(RunState \in {"Success", "Failure"})
  /\ [][RunState # "Pending" => (RunState' = RunState /\ UNCHANGED vars)]_vars

\* C6 witness: a run in Success.
C6_Witness == RunState = "Success" /\ Len(stdout) = 2

C8_TwoOutputForms ==
  (Terminated /\ ~TransportFailed) =>
    \/ stdout = <<SuccessLine, ContentLine(payload)>>
    \/ stdout = <<FailureLine(compared)>>

C10_SuccessMarkerMeansExit0 ==
  (Terminated /\ HasSuccessLine) => (exitCode = 0 /\ HasContentLine)

\* C10 (amended): a run that ended with the success marker printed has
\* exit code 0 and the content line after the marker, unless reading the
\* body failed: then it has exit code 1 and the marker alone.
C10_SuccessMarkerUnlessReadFails ==
  (Terminated /\ HasSuccessLine) =>
    IF stderr = "none"
    THEN exitCode = 0 /\ stdout = <<SuccessLine, ContentLine(payload)>>
    ELSE stderr = "IncompleteRead" /\ exitCode = 1 /\ stdout = <<SuccessLine>>

\* C10 witness: both outcomes exist; this is the one the claim misses.
C10_Witness ==
  /\ Terminated
  /\ HasSuccessLine
  /\ ~HasContentLine
  /\ exitCode = 1

====
